---- MODULE Spec2Model ----
(***************************************************************************)
(* BLISS: the dynamic OpenMP task runner (taskrunner/dynamic_omp_runner.hpp)*)
(* over the thread-safe task queue (concurrent/lockfree_queue.hpp), the    *)
(* k-mer key encoder and its driver (index/indexing.cpp) and the range of  *)
(* the partitioner (partition/range.hpp).                                  *)
(*                                                                         *)
(* The runner, the encoder and the range are translated from their source. *)
(* The queue's source is not part of the sources at hand; its operations   *)
(* are modelled from the specification's section 4.3 and are the           *)
(* definitions of the section "ThreadSafeQueue" below.                     *)
(*                                                                         *)
(* Each component has its own specification over its own variables: Spec   *)
(* and FairSpec (runner and queue), SpecKeys (one call of computeKeys),    *)
(* SpecPadded and SpecLong (the same over words with padding bits and over *)
(* a long read), SpecUnits (main: prefix sum, allocation, the parallel     *)
(* loop), SpecRange (a range object), SpecPairs (one call on two ranges),  *)
(* SpecAlign (align_to_page) and SpecSync (the runner with callers of      *)
(* synchronize).                                                           *)
(***************************************************************************)
EXTENDS Integers, Sequences, FiniteSets, TLC

\* ---------------------------------------------------------------- bounds
\* nThreads, the constructor's argument (the size of proc and the
\* num_threads clause).
NThreads == 2
\* The number of tasks the producers hand to addTask / tryPush.
MaxTasks == 2
\* The number of generated tasks the OpenMP runtime keeps deferred; a task
\* generated beyond it is run undeferred by the generating thread.
MaxPending == 1
\* The values new[] may leave in an element of proc are 0..MaxGarbage.
MaxGarbage == 1

Threads == 0 .. (NThreads - 1)
TaskIds == 1 .. MaxTasks
NoTask == 0

VARIABLES
  q,            \* ThreadSafeQueue: the queued tasks, oldest first
  pushEnabled,  \* ThreadSafeQueue: FALSE once disablePush was called
  rpc,          \* operator()(): "init", "parallel", "sum", "done", "aborted"
  teamSize,     \* the number of threads of the parallel region
  pending,      \* generated omp tasks not yet started
  tpc,          \* per thread: its position in the parallel region
  ret,          \* per thread: where it resumes when its task ends
  v,            \* per thread: the task's local v (the pair of waitAndPop)
  proc,         \* the array proc, indexed by omp_get_thread_num(): what was
                \* added to each element since new[]
  sum,          \* the local sum of operator()()
  nextId,       \* the next task a producer submits
  accepted,     \* history: tasks whose addTask / tryPush returned true
  rejected,     \* history: tasks whose addTask / tryPush returned false
  popped,       \* history: per task, the successful waitAndPop calls returning it
  executed,     \* history: per task, how often its body was entered
  proc0,        \* what new[] left in each element of proc, fixed when read
  ran,          \* history: per thread, the task bodies it ran to their end
  threw,        \* history: the task whose body raised, or NoTask
  disableCalled,\* history: disableAdd has been called
  lastCall      \* history: the producers' last call

VARIABLES
  params,       \* indexing: the compile-time parameters WORD_BITS, N_BITS, N_K
  reads,        \* indexing, history: per read, the characters packed into seqs
  seqs,         \* indexing: per read, its packed words
  lengths,      \* indexing: per read, its entry of the array lengths
  offsets,      \* indexing: the array offsets, as far as it is computed
  keys,         \* indexing: the key buffer
  ipc,          \* indexing: the position of main
  enc,          \* indexing: per read, the state of its call of computeKeys
  writers       \* indexing, history: per index of keys, the reads that wrote it

indexVars == << params, reads, seqs, lengths, offsets, keys, ipc, enc, writers >>

VARIABLES
  rng,          \* partition: the range object, its start, end and overlap
  rcall,        \* partition, history: the last call on it and what it threw
  nops,         \* partition: the number of calls made on the object
  al,           \* partition: a call of align_to_page, its arguments and result
  bin           \* partition: a call on two range objects, and what it did

rangeVars == << rng, rcall, nops, al, bin >>

VARIABLE
  sync          \* synchronize(): the threads waiting in it, and the last
                \* caller that went on past it

\* What operator()() and the producers leave alone.
restVars == << indexVars, rangeVars, sync >>
runnerVars == << q, pushEnabled, rpc, teamSize, pending, tpc, ret, v,
                 proc, sum, nextId, accepted, rejected, popped, executed,
                 proc0, ran, threw, disableCalled, lastCall, sync >>

vars == << q, pushEnabled, rpc, teamSize, pending, tpc, ret, v,
           proc, sum, nextId, accepted, rejected, popped, executed, proc0,
           ran, threw, disableCalled, lastCall, restVars >>

queueVars == << q, pushEnabled >>
regionVars == << rpc, teamSize, pending, tpc, ret, v, proc, sum,
                 proc0, ran, threw >>
producerVars == << nextId, accepted, rejected, disableCalled, lastCall >>
historyVars == << popped, executed >>

NoResult == [first |-> FALSE, second |-> NoTask]

\* ------------------------------------------------------- ThreadSafeQueue
\* The three states of the queue.
Open == pushEnabled
Draining == ~pushEnabled /\ q # << >>
Closed == ~pushEnabled /\ q = << >>

canPush == pushEnabled
\* canPop answering for the queue's being Open only.
canPopWhileOpen == pushEnabled
canPop == pushEnabled \/ q # << >>
getSize == Len(q)

\* tryPush(item) and waitAndPush(item) on the unbounded queue: the value
\* returned and the queue left behind.
PushAccepts == canPush
PushQueue(item) == IF canPush THEN Append(q, item) ELSE q

\* waitAndPop(): it returns once an item is queued or the queue is Closed,
\* and blocks until then.
WaitAndPopReturns == q # << >> \/ ~canPop
WaitAndPopResult ==
  IF q # << >> THEN [first |-> TRUE, second |-> Head(q)] ELSE NoResult
WaitAndPopQueue == IF q # << >> THEN Tail(q) ELSE q

\* disablePush()
DisablePush == pushEnabled' = FALSE

\* ------------------------------------------------------------- producers
Alive == rpc # "aborted"

\* addTask handing the task to the queue twice.
AddTaskTwice ==
  /\ Alive
  /\ nextId <= MaxTasks
  /\ q' = IF canPush THEN Append(Append(q, nextId), nextId) ELSE q
  /\ IF PushAccepts
       THEN accepted' = accepted \cup {nextId} /\ UNCHANGED rejected
       ELSE rejected' = rejected \cup {nextId} /\ UNCHANGED accepted
  /\ nextId' = nextId + 1
  /\ lastCall' = "addTask"
  /\ UNCHANGED << pushEnabled, disableCalled, regionVars, historyVars >>
  /\ UNCHANGED restVars

\* addTask pushing without regard to the queue's state.
AddTaskForced ==
  /\ Alive
  /\ nextId <= MaxTasks
  /\ q' = Append(q, nextId)
  /\ IF PushAccepts
       THEN accepted' = accepted \cup {nextId} /\ UNCHANGED rejected
       ELSE rejected' = rejected \cup {nextId} /\ UNCHANGED accepted
  /\ nextId' = nextId + 1
  /\ lastCall' = "addTask"
  /\ UNCHANGED << pushEnabled, disableCalled, regionVars, historyVars >>
  /\ UNCHANGED restVars

\* bool addTask(t): return q.waitAndPush(t).first
AddTask ==
  /\ Alive
  /\ nextId <= MaxTasks
  /\ q' = PushQueue(nextId)
  /\ IF PushAccepts
       THEN accepted' = accepted \cup {nextId} /\ UNCHANGED rejected
       ELSE rejected' = rejected \cup {nextId} /\ UNCHANGED accepted
  /\ nextId' = nextId + 1
  /\ lastCall' = "addTask"
  /\ UNCHANGED << pushEnabled, disableCalled, regionVars, historyVars >>
  /\ UNCHANGED restVars

\* tryPush appending in every state of the queue.
TryPushForced ==
  /\ Alive
  /\ nextId <= MaxTasks
  /\ q' = Append(q, nextId)
  /\ IF PushAccepts
       THEN accepted' = accepted \cup {nextId} /\ UNCHANGED rejected
       ELSE rejected' = rejected \cup {nextId} /\ UNCHANGED accepted
  /\ nextId' = nextId + 1
  /\ lastCall' = "tryPush"
  /\ UNCHANGED << pushEnabled, disableCalled, regionVars, historyVars >>
  /\ UNCHANGED restVars

\* q.tryPush(t), by a producer that holds the queue
TryPush ==
  /\ Alive
  /\ nextId <= MaxTasks
  /\ q' = PushQueue(nextId)
  /\ IF PushAccepts
       THEN accepted' = accepted \cup {nextId} /\ UNCHANGED rejected
       ELSE rejected' = rejected \cup {nextId} /\ UNCHANGED accepted
  /\ nextId' = nextId + 1
  /\ lastCall' = "tryPush"
  /\ UNCHANGED << pushEnabled, disableCalled, regionVars, historyVars >>
  /\ UNCHANGED restVars

getTaskCount == getSize
isAddDisabled == ~canPush

\* disableAdd switching the queue's state instead of closing it.
DisableAddToggle ==
  /\ Alive
  /\ pushEnabled' = ~pushEnabled
  /\ disableCalled' = TRUE
  /\ lastCall' = "disableAdd"
  /\ UNCHANGED << q, nextId, accepted, rejected, regionVars, historyVars >>
  /\ UNCHANGED restVars

\* void disableAdd(): q.disablePush()
DisableAdd ==
  /\ Alive
  /\ DisablePush
  /\ disableCalled' = TRUE
  /\ lastCall' = "disableAdd"
  /\ UNCHANGED << q, nextId, accepted, rejected, regionVars, historyVars >>
  /\ UNCHANGED restVars

\* ------------------------------------------------------------ operator()
InTeam(t) == t < teamSize

\* size_t *proc = new size_t[nThreads]: the elements are not initialized.
\* What new[] left in them is not looked at before the final sum, and is
\* chosen there (SumUp); until then proc holds what was added to it.
\* #pragma omp parallel num_threads(nThreads): with omp_set_dynamic(1) of the
\* constructor the region gets between 1 and nThreads threads.
\* #pragma omp single nowait: one thread of the team, c, runs the block, the
\* others go on to the barrier that ends the parallel region.
RunStart ==
  /\ rpc = "init"
  /\ rpc' = "parallel"
  /\ \E n \in 1 .. NThreads : \E c \in 0 .. (n - 1) :
       /\ teamSize' = n
       /\ tpc' = [t \in Threads |->
                    IF t = c THEN "while" ELSE IF t < n THEN "barrier" ELSE "out"]
  /\ UNCHANGED << pending, ret, v, proc, sum, proc0, ran, threw,
                  queueVars, producerVars, historyVars >>
  /\ UNCHANGED restVars

\* The loop generating tasks without asking canPop: while (true).
WhileForever(t) ==
  /\ rpc = "parallel" /\ tpc[t] = "while"
  /\ \/ /\ pending < MaxPending
        /\ pending' = pending + 1
        /\ UNCHANGED << tpc, ret >>
     \/ /\ tpc' = [tpc EXCEPT ![t] = "pop"]
        /\ ret' = [ret EXCEPT ![t] = "while"]
        /\ UNCHANGED pending
  /\ UNCHANGED << rpc, teamSize, v, proc, sum, proc0, ran, threw,
                  queueVars, producerVars, historyVars >>
  /\ UNCHANGED restVars

\* while (q.canPop()) { ++gen; #pragma omp task {...} }: the generated task
\* is deferred, or is run at once by the generating thread.  gen is only
\* logged and is not kept.
While(t) ==
  /\ rpc = "parallel" /\ tpc[t] = "while"
  /\ IF canPop
       THEN \/ /\ pending < MaxPending
               /\ pending' = pending + 1
               /\ UNCHANGED << tpc, ret >>
            \/ /\ tpc' = [tpc EXCEPT ![t] = "pop"]
               /\ ret' = [ret EXCEPT ![t] = "while"]
               /\ UNCHANGED pending
       ELSE /\ tpc' = [tpc EXCEPT ![t] = "barrier"]
            /\ UNCHANGED << pending, ret >>
  /\ UNCHANGED << rpc, teamSize, v, proc, sum, proc0, ran, threw,
                  queueVars, producerVars, historyVars >>
  /\ UNCHANGED restVars

\* A thread at a task scheduling point (after it generated a task, or at the
\* barrier) starts a deferred task.
TaskStart(t) ==
  /\ rpc = "parallel" /\ tpc[t] \in {"while", "barrier"}
  /\ pending > 0
  /\ pending' = pending - 1
  /\ tpc' = [tpc EXCEPT ![t] = "pop"]
  /\ ret' = [ret EXCEPT ![t] = tpc[t]]
  /\ UNCHANGED << rpc, teamSize, v, proc, sum, proc0, ran, threw,
                  queueVars, producerVars, historyVars >>
  /\ UNCHANGED restVars

\* The task asking the queue without waiting (a tryPop): an empty queue
\* gives (false, _) whatever its state.
TaskPopNoWait(t) ==
  /\ rpc = "parallel" /\ tpc[t] = "pop"
  /\ v' = [v EXCEPT ![t] = WaitAndPopResult]
  /\ q' = WaitAndPopQueue
  /\ popped' = IF WaitAndPopResult.first
                 THEN [popped EXCEPT ![WaitAndPopResult.second] = @ + 1]
                 ELSE popped
  /\ tpc' = [tpc EXCEPT ![t] = "test"]
  /\ UNCHANGED << pushEnabled, rpc, teamSize, pending, ret, proc,
                  sum, proc0, ran, threw, producerVars, executed >>
  /\ UNCHANGED restVars

\* The task waiting for an item only, and not for the queue to close.
TaskPopItemOnly(t) ==
  /\ rpc = "parallel" /\ tpc[t] = "pop"
  /\ q # << >>
  /\ v' = [v EXCEPT ![t] = WaitAndPopResult]
  /\ q' = WaitAndPopQueue
  /\ popped' = [popped EXCEPT ![WaitAndPopResult.second] = @ + 1]
  /\ tpc' = [tpc EXCEPT ![t] = "test"]
  /\ UNCHANGED << pushEnabled, rpc, teamSize, pending, ret, proc,
                  sum, proc0, ran, threw, producerVars, executed >>
  /\ UNCHANGED restVars

\* auto v = std::move(q.waitAndPop());
TaskPop(t) ==
  /\ rpc = "parallel" /\ tpc[t] = "pop"
  /\ WaitAndPopReturns
  /\ v' = [v EXCEPT ![t] = WaitAndPopResult]
  /\ q' = WaitAndPopQueue
  /\ popped' = IF WaitAndPopResult.first
                 THEN [popped EXCEPT ![WaitAndPopResult.second] = @ + 1]
                 ELSE popped
  /\ tpc' = [tpc EXCEPT ![t] = "test"]
  /\ UNCHANGED << pushEnabled, rpc, teamSize, pending, ret, proc,
                  sum, proc0, ran, threw, producerVars, executed >>
  /\ UNCHANGED restVars

\* The task ends: its thread is back at the scheduling point it left.
EndTask(t) ==
  /\ tpc' = [tpc EXCEPT ![t] = ret[t]]
  /\ ret' = [ret EXCEPT ![t] = "barrier"]
  /\ v' = [v EXCEPT ![t] = NoResult]

\* TaskTest with the test dropped and the body with it: a popped task is
\* discarded unexecuted.
TaskTestSkip(t) ==
  /\ rpc = "parallel" /\ tpc[t] = "test"
  /\ EndTask(t)
  /\ UNCHANGED << rpc, teamSize, pending, proc, sum, proc0,
                  ran, threw, queueVars, producerVars, historyVars >>
  /\ UNCHANGED restVars

\* if (v.first) {...}, and the end of the task when v.first is false
TaskTest(t) ==
  /\ rpc = "parallel" /\ tpc[t] = "test"
  /\ IF v[t].first
       THEN tpc' = [tpc EXCEPT ![t] = "call"] /\ UNCHANGED << v, ret >>
       ELSE EndTask(t)
  /\ UNCHANGED << rpc, teamSize, pending, proc, sum, proc0,
                  ran, threw, queueVars, producerVars, historyVars >>
  /\ UNCHANGED restVars

\* (v.second)->operator()(); ++(proc[omp_get_thread_num()]); and the end of
\* the task: the body returns and the thread's counter is incremented, or
\* the body raises.  Nothing in the task catches: the exception leaves the
\* task region before the increment and the program is terminated.
TaskCall(t) ==
  /\ rpc = "parallel" /\ tpc[t] = "call"
  /\ executed' = [executed EXCEPT ![v[t].second] = @ + 1]
  /\ ran' = [ran EXCEPT ![t] = @ + 1]
  /\ \/ /\ proc' = [proc EXCEPT ![t] = @ + 1]
        /\ EndTask(t)
        /\ UNCHANGED << rpc, threw >>
     \/ /\ threw' = v[t].second
        /\ rpc' = "aborted"
        /\ tpc' = [u \in Threads |-> IF InTeam(u) THEN "aborted" ELSE "out"]
        /\ UNCHANGED << proc, ret, v >>
  /\ UNCHANGED << teamSize, pending, sum, proc0, queueVars, producerVars,
                  popped >>
  /\ UNCHANGED restVars

\* The barrier that ends the parallel region: every thread of the team has
\* arrived and no generated task is left.
Join ==
  /\ rpc = "parallel"
  /\ \A t \in Threads : InTeam(t) => tpc[t] = "barrier"
  /\ pending = 0
  /\ rpc' = "sum"
  /\ tpc' = [t \in Threads |-> "out"]
  /\ UNCHANGED << teamSize, pending, ret, v, proc, sum, proc0,
                  ran, threw, queueVars, producerVars, historyVars >>
  /\ UNCHANGED restVars

RECURSIVE SumOf(_, _)
SumOf(f, n) == IF n = 0 THEN 0 ELSE SumOf(f, n - 1) + f[n - 1]

\* for (i = 0; i < nThreads; ++i) sum += proc[i]; delete [] proc;
SumUp ==
  /\ rpc = "sum"
  /\ \E garbage \in [Threads -> 0 .. MaxGarbage] :
       /\ proc0' = garbage
       /\ sum' = SumOf([t \in Threads |-> garbage[t] + proc[t]], NThreads)
  /\ rpc' = "done"
  /\ UNCHANGED << teamSize, pending, tpc, ret, v, proc, ran, threw, queueVars,
                  producerVars, historyVars >>
  /\ UNCHANGED restVars

\* ---------------------------------------------------------- synchronize()
\* #pragma omp barrier, orphaned in a member function: it binds to the
\* innermost parallel region enclosing the caller.
NoSync == [passed |-> FALSE, from |-> "none", arrived |-> {}]

\* A caller outside the parallel region of operator()(): the barrier is one
\* of the caller's own team, which has none of the runner's threads, and the
\* caller is past it without any of them having arrived.
Synchronize ==
  /\ Alive
  /\ sync' = [passed |-> TRUE, from |-> "outside", arrived |-> {}]
  /\ UNCHANGED << q, pushEnabled, rpc, teamSize, pending, tpc, ret, v,
                  proc, sum, nextId, accepted, rejected, popped, executed,
                  proc0, ran, threw, disableCalled, lastCall >>
  /\ UNCHANGED << indexVars, rangeVars >>

\* A caller inside the region, which is the body of a task: a barrier
\* region closely nested in a task region is not conforming, and the thread
\* either goes on with the others elsewhere or waits without end.
SynchronizeInTask(t) ==
  /\ rpc = "parallel" /\ tpc[t] = "call"
  /\ \/ /\ sync' = [passed |-> TRUE, from |-> "task", arrived |-> {t}]
        /\ UNCHANGED tpc
     \/ /\ sync' = [sync EXCEPT !.arrived = @ \cup {t}]
        /\ tpc' = [tpc EXCEPT ![t] = "synchronize"]
  /\ UNCHANGED << q, pushEnabled, rpc, teamSize, pending, ret, v,
                  proc, sum, nextId, accepted, rejected, popped, executed,
                  proc0, ran, threw, disableCalled, lastCall >>
  /\ UNCHANGED << indexVars, rangeVars >>

\* ================================================================ indexing
\* index/indexing.cpp: the packed reads, the scalar computeKeys over one
\* read, the loop of computeKeys over all reads and the prefix sum of main.
\*
\* The source fixes WordType = uint16_t, KeyType = uint64_t, N_BITS = 3 and
\* N_K = 21.  The model instantiates the same definitions with smaller
\* parameters, KeyType staying four words wide: a value of params is one
\* choice of WORD_BITS, N_BITS and N_K.

\* The largest N_K of a parameter choice.
MaxK == 3
\* The largest number of characters of a read computeKeys is called with.
MaxLen == 4
\* The number of reads of a corpus main indexes (N_R).
MaxReads == 2
\* The largest entry of lengths of such a corpus.
MaxReadLen == 3

\* ------------------------------------------------ unsigned machine integers
Pow2(n) == 2 ^ n
\* x << n and x >> n in an unsigned type of w bits.
shl(x, n, w) == (x * Pow2(n)) % Pow2(w)
shr(x, n) == x \div Pow2(n)

RECURSIVE BitOr(_, _)
BitOr(a, b) ==
  IF a = 0 THEN b
  ELSE IF b = 0 THEN a
  ELSE (IF a % 2 = 1 \/ b % 2 = 1 THEN 1 ELSE 0) + 2 * BitOr(a \div 2, b \div 2)

RECURSIVE BitAnd(_, _)
BitAnd(a, b) ==
  IF a = 0 \/ b = 0 THEN 0
  ELSE (IF a % 2 = 1 /\ b % 2 = 1 THEN 1 ELSE 0) + 2 * BitAnd(a \div 2, b \div 2)

\* The conversion of an int to ReadLengthType (uint16_t) and to uint8_t.
ReadLengthBits == 16
ToReadLength(x) == x % Pow2(ReadLengthBits)
ByteBits == 8
ToByte(x) == x % Pow2(ByteBits)

\* ------------------------------------------------- compile-time parameters
WORD_BITS == params.WORD_BITS
N_BITS == params.N_BITS
N_K == params.N_K
\* sizeof(KeyType) * 8 with KeyType four times as wide as WordType.
KeyWords == 4
KEY_BITS == KeyWords * WORD_BITS
K_BITS == N_K * N_BITS
N_PACKED_CHARS == WORD_BITS \div N_BITS
N_PADDING_BITS == WORD_BITS % N_BITS
WordMax == Pow2(WORD_BITS) - 1
PADDING_MASK == shr(WordMax, N_PADDING_BITS)
DIV == N_K \div N_PACKED_CHARS
REM == N_K % N_PACKED_CHARS
REM_MASK == IF REM # 0 THEN shr(WordMax, WORD_BITS - REM * N_BITS) ELSE 0
SIG_BITS == WORD_BITS - N_PADDING_BITS
CHAR_MASK == shr(WordMax, WORD_BITS - N_BITS)

Words == 0 .. WordMax
Chars == 0 .. (Pow2(N_BITS) - 1)

\* The parameter choices: words of 4 or 5 bits and characters of 1 or 2
\* bits give words of 2, 4 and 5 characters with and without a padding
\* bit, and N_K both a multiple of N_PACKED_CHARS and not; a key fits KeyType.
WordBitsChoices == {4, 5}
CharBitsChoices == {1, 2}
Configs ==
  { c \in [WORD_BITS : WordBitsChoices, N_BITS : CharBitsChoices, N_K : 1 .. MaxK] :
      c.N_K * c.N_BITS <= KeyWords * c.WORD_BITS }

\* ----------------------------------------------------------- packed reads
\* generateStrings: a read of len characters has (len + N_PACKED_CHARS - 1)
\* / N_PACKED_CHARS words, the characters in the slots of a word from the
\* low bits up, the padding bits and the slots after the last character 0.
WordCount(len) == (len + N_PACKED_CHARS - 1) \div N_PACKED_CHARS

RECURSIVE PackWord(_, _, _)
PackWord(chars, w, s) ==
  IF s = N_PACKED_CHARS \/ w * N_PACKED_CHARS + s >= Len(chars) THEN 0
  ELSE chars[w * N_PACKED_CHARS + s + 1] * Pow2(s * N_BITS)
       + PackWord(chars, w, s + 1)

Pack(chars) == [w \in 1 .. WordCount(Len(chars)) |-> PackWord(chars, w - 1, 0)]

\* The character sequences of at most n characters.
CharSeqs(n) == UNION { [1 .. l -> Chars] : l \in 0 .. n }

\* --------------------------------------------------- 64-bit unsigned values
\* A uint64_t (ReadBaseCountType, size_t) is the tuple of its eight bytes,
\* the lowest first.
LimbBits == 8
LimbBase == Pow2(LimbBits)
LimbCount == 8

\* The conversion of an int to uint64_t: x modulo 2^64.
RECURSIVE Limbs(_, _)
Limbs(x, n) ==
  IF n = 0 THEN << >>
  ELSE << x % LimbBase >> \o Limbs((x - (x % LimbBase)) \div LimbBase, n - 1)

U64Of(x) == Limbs(x, LimbCount)

\* a + b modulo 2^64.
RECURSIVE AddLimbs(_, _, _, _)
AddLimbs(a, b, k, carry) ==
  IF k > LimbCount THEN << >>
  ELSE << (a[k] + b[k] + carry) % LimbBase >>
       \o AddLimbs(a, b, k + 1, (a[k] + b[k] + carry) \div LimbBase)

U64Add(a, b) == AddLimbs(a, b, 1, 0)

\* A position no buffer of the model reaches.
FarIndex == Pow2(30)
\* The conversion of a uint64_t to the signed difference_type an iterator is
\* advanced by: the values next to 0 and next to 2^64 are the small
\* non-negative and the small negative numbers.
U64ToIndex(u) ==
  IF \A k \in 2 .. LimbCount : u[k] = 0 THEN u[1]
  ELSE IF \A k \in 2 .. LimbCount : u[k] = LimbBase - 1 THEN u[1] - LimbBase
  ELSE FarIndex

\* -------------------------------- computeKeys<SCALAR>(seq, key_count, iter)
N_R == Cardinality(DOMAIN lengths)

NoCall ==
  [pc |-> "idle", key_count |-> 0, iter |-> 0, key |-> 0, block |-> 0,
   last_block |-> 0, last_block_pos |-> 0, j |-> 0, out |-> << >>,
   error |-> FALSE, oob |-> FALSE]

\* What the reads of seq[0] .. seq[n - 1] may return: the words of seq, and
\* for an index past its last word whatever the memory behind it holds.
ReadsOf(seq, n) ==
  IF Len(seq) >= n THEN {seq}
  ELSE { seq \o g : g \in [1 .. (n - Len(seq)) -> Words] }

\* for (j = 0; j < DIV; ++j) { temp = seq[j]; key |= temp << (j * SIG_BITS); }
RECURSIVE SeedWords(_, _)
SeedWords(w, j) ==
  IF j = 0 THEN 0
  ELSE BitOr(SeedWords(w, j - 1), shl(w[j], (j - 1) * SIG_BITS, KEY_BITS))

\* ... if (REM > 0) { temp = seq[DIV] & REM_MASK; key |= temp << (DIV * SIG_BITS); }
SeedKey(w) ==
  IF REM > 0
  THEN BitOr(SeedWords(w, DIV),
             shl(BitAnd(w[DIV + 1], REM_MASK), DIV * SIG_BITS, KEY_BITS))
  ELSE SeedWords(w, DIV)

\* The slide that puts the new character into the lowest group of the key.
SlideKeyLow(key, block, pos) ==
  BitOr(shl(key, N_BITS, K_BITS),
        BitAnd(shr(block, pos * N_BITS), CHAR_MASK))

\* key = key >> N_BITS; temp = (block >> (last_block_pos * N_BITS)) & CHAR_MASK;
\* key |= temp << ((N_K - 1) * N_BITS);
SlideKey(key, block, pos) ==
  BitOr(shr(key, N_BITS),
        shl(BitAnd(shr(block, pos * N_BITS), CHAR_MASK), (N_K - 1) * N_BITS, KEY_BITS))

\* *key_iter = key: the element at idx of the buffer is written by read i.
\* A write outside the buffer is recorded and leaves the buffer as it is.
Store(i, idx, key) ==
  /\ keys' = IF idx \in DOMAIN keys THEN [keys EXCEPT ![idx] = key] ELSE keys
  /\ writers' = writers \cup {<< idx, i >>}

\* The loop test j < key_count.
LoopPc(j, key_count) == IF j < key_count THEN "slide" ELSE "done"

\* Lines 271-272 and 177-200: iter = keys.begin() + offsets[i], the call
\* with key_count = lengths[i] - N_K + 1 converted to ReadLengthType, the
\* seed key from seq[0 .. DIV], its write, block = seq[last_block].
Seed(i) ==
  /\ ipc = "parallel"
  /\ i \in DOMAIN enc /\ enc[i].pc = "idle"
  /\ \E w \in ReadsOf(seqs[i], DIV + 1) :
       LET key_count == ToReadLength(lengths[i] - N_K + 1)
           iter == U64ToIndex(offsets[i])
       IN /\ enc' = [enc EXCEPT ![i] =
                       [pc |-> LoopPc(1, key_count), key_count |-> key_count,
                        iter |-> iter + 1, key |-> SeedKey(w),
                        block |-> w[DIV + 1], last_block |-> ToByte(DIV),
                        last_block_pos |-> ToByte(REM), j |-> 1,
                        out |-> << SeedKey(w) >>, error |-> FALSE,
                        oob |-> Len(seqs[i]) < DIV + 1]]
          /\ Store(i, iter, SeedKey(w))
  /\ UNCHANGED << params, reads, seqs, lengths, offsets, ipc >>

\* Lines 203-237: one pass of the loop body and the loop test after ++j.
Slide(i) ==
  /\ ipc = "parallel"
  /\ i \in DOMAIN enc /\ enc[i].pc = "slide"
  /\ LET e == enc[i]
         key == SlideKey(e.key, e.block, e.last_block_pos)
         pos == ToByte(e.last_block_pos + 1)
         wrap == pos % N_PACKED_CHARS = 0
         last == IF wrap THEN ToByte(e.last_block + 1) ELSE e.last_block
         over == wrap /\ last > Len(seqs[i])
         atEnd == wrap /\ last = Len(seqs[i])
     IN /\ enc' = [enc EXCEPT ![i] =
                     [e EXCEPT !.key = key,
                               !.iter = @ + 1,
                               !.out = Append(@, key),
                               !.last_block_pos = IF wrap THEN 0 ELSE pos,
                               !.last_block = last,
                               !.error = over,
                               !.block = IF wrap /\ ~over /\ ~atEnd
                                         THEN seqs[i][last + 1] ELSE @,
                               !.j = IF over \/ atEnd THEN @ ELSE ToReadLength(@ + 1),
                               !.pc = IF over \/ atEnd THEN "done"
                                      ELSE LoopPc(ToReadLength(e.j + 1), e.key_count)]]
        /\ Store(i, e.iter, key)
  /\ UNCHANGED << params, reads, seqs, lengths, offsets, ipc >>

\* The variables of indexing while main is not run.
IndexIdle ==
  /\ params = [WORD_BITS |-> 4, N_BITS |-> 2, N_K |-> 2]
  /\ reads = << >> /\ seqs = << >> /\ lengths = << >>
  /\ offsets = << >> /\ keys = << >> /\ enc = << >>
  /\ ipc = "idle"
  /\ writers = {}

\* The buffer a single call writes to holds more keys than a read of MaxLen
\* characters in whole words has characters.
SinkSize == 2 * MaxLen + 2

\* =============================================================== partition
\* partition/range.hpp: range<T> and its static align_to_page, instantiated
\* with T = TT = int16_t, whose arithmetic is done in int and converted
\* back; size_t is the 64-bit unsigned type.
ValueBits == 16
lowest == 0 - Pow2(ValueBits - 1)
highest == Pow2(ValueBits - 1) - 1
\* The conversion of an int to T: x modulo 2^ValueBits, as a signed value.
ToValue(x) == ((x - lowest) % Pow2(ValueBits)) + lowest

\* The largest distance of an argument from 0, from lowest and from highest.
MaxValue == 1
\* The largest overlap a range is constructed with.
MaxOverlap == 1
\* The number of calls made on one range object.
MaxOps == 2
\* The largest of the small page sizes and the widest band of start
\* positions about 0, above lowest and below highest that align_to_page is
\* called with.
MaxPage == 6
MaxStart == 7

\* -------------------------------------------------- size_t arithmetic
\* a / p and a % p for a page size p below 2^22, by long division from
\* the highest limb.
RECURSIVE DivLimbs(_, _, _, _)
DivLimbs(a, p, k, rem) ==
  IF k = 0 THEN << >>
  ELSE DivLimbs(a, p, k - 1, (rem * LimbBase + a[k]) % p)
       \o << (rem * LimbBase + a[k]) \div p >>

U64Div(a, p) == DivLimbs(a, p, LimbCount, 0)

RECURSIVE RemLimbs(_, _, _, _)
RemLimbs(a, p, k, rem) ==
  IF k = 0 THEN rem ELSE RemLimbs(a, p, k - 1, (rem * LimbBase + a[k]) % p)

U64Rem(a, p) == RemLimbs(a, p, LimbCount, 0)

\* a * p modulo 2^64.
RECURSIVE MulLimbs(_, _, _, _)
MulLimbs(a, p, k, carry) ==
  IF k > LimbCount THEN << >>
  ELSE << (a[k] * p + carry) % LimbBase >>
       \o MulLimbs(a, p, k + 1, (a[k] * p + carry) \div LimbBase)

U64Mul(a, p) == MulLimbs(a, p, 1, 0)

\* a - b modulo 2^64.
RECURSIVE SubLimbs(_, _, _, _)
SubLimbs(a, b, k, borrow) ==
  IF k > LimbCount THEN << >>
  ELSE << (a[k] - b[k] - borrow) % LimbBase >>
       \o SubLimbs(a, b, k + 1, IF a[k] - b[k] - borrow < 0 THEN 1 ELSE 0)

U64Sub(a, b) == SubLimbs(a, b, 1, 0)

\* a < b, from the highest limb down.
RECURSIVE LessLimbs(_, _, _)
LessLimbs(a, b, k) ==
  IF k = 0 THEN FALSE
  ELSE IF a[k] # b[k] THEN a[k] < b[k]
  ELSE LessLimbs(a, b, k - 1)

U64Less(a, b) == LessLimbs(a, b, LimbCount)

\* The conversion of a size_t to TT: its low ValueBits bits, the two lowest
\* limbs, as a signed value.
U64ToValue(a) == ToValue(a[1] + LimbBase * a[2])

\* ------------------------------------------------------------ range<T>
Range(s, e, o) == [start |-> s, end |-> e, overlap |-> o]

\* range(_start, _end, _overlap): what the constructor throws.
RangeThrows(s, e, o) ==
  IF e < s THEN "invalid_argument"
  ELSE IF o < 0 THEN "invalid_argument"
  ELSE "none"

Min(a, b) == IF a <= b THEN a ELSE b
Max(a, b) == IF a >= b THEN a ELSE b

\* isDisjoint with the first of its two tests only.
isDisjointAbove(r, other) == r.start > other.end

isDisjoint(r, other) == r.start > other.end \/ r.end < other.start

\* merge without the choice of the overlap.
mergeOwnOverlap(r, other) ==
  [overlap |-> r.overlap,
   start |-> Min(r.start, other.start),
   end |-> Max(r.end, other.end)]

merge(r, other) ==
  [overlap |-> IF r.end < other.end THEN other.overlap ELSE r.overlap,
   start |-> Min(r.start, other.start),
   end |-> Max(r.end, other.end)]

\* intersect without the last assignment, start = std::min(start, end).
intersectUnclamped(r, other) ==
  [overlap |-> IF r.end > other.end THEN other.overlap ELSE r.overlap,
   start |-> Max(r.start, other.start),
   end |-> Min(r.end, other.end)]

intersect(r, other) ==
  [overlap |-> IF r.end > other.end THEN other.overlap ELSE r.overlap,
   start |-> Min(Max(r.start, other.start), Min(r.end, other.end)),
   end |-> Min(r.end, other.end)]

\* start += amount; end += amount: the sum in int, converted back to T.
shiftRight(r, amount) ==
  [r EXCEPT !.start = ToValue(@ + amount), !.end = ToValue(@ + amount)]

shiftLeft(r, amount) ==
  [r EXCEPT !.start = ToValue(@ - amount), !.end = ToValue(@ - amount)]

\* The arguments of the calls: the values about 0 and the two ends of T.
Values == ((0 - MaxValue) .. MaxValue) \cup {lowest, highest}

\* The overlaps they are called with: a negative one and the small ones.
Overlaps == (0 - 1) .. MaxOverlap

\* The ranges the constructor makes of them.
Constructed ==
  { r \in [start : Values, end : Values, overlap : Overlaps] :
      RangeThrows(r.start, r.end, r.overlap) = "none" }

\* The last call: its name, the arguments of a constructor call, and the
\* exception the call ended with or "none".
Called(op, args, exc) == [op |-> op, args |-> args, threw |-> exc]

\* range(_start, _end) without the test of _overlap.
ConstructUnchecked ==
  /\ nops < MaxOps
  /\ \E s \in Values, e \in Values, o \in Overlaps :
       /\ rcall' = Called("range", << s, e, o >>,
                           IF e < s THEN "invalid_argument" ELSE "none")
       /\ rng' = IF e < s THEN rng ELSE Range(s, e, o)
  /\ nops' = nops + 1
  /\ UNCHANGED << al, bin, runnerVars, indexVars >>

\* A new object is constructed in place of the one at hand; when the
\* constructor throws there is no new object.
Construct ==
  /\ nops < MaxOps
  /\ \E s \in Values, e \in Values, o \in Overlaps :
       /\ rcall' = Called("range", << s, e, o >>, RangeThrows(s, e, o))
       /\ rng' = IF RangeThrows(s, e, o) = "none" THEN Range(s, e, o) ELSE rng
  /\ nops' = nops + 1
  /\ UNCHANGED << al, bin, runnerVars, indexVars >>

Merge ==
  /\ nops < MaxOps
  /\ \E other \in Constructed :
       IF isDisjoint(rng, other)
       THEN /\ rcall' = Called("merge", << >>, "invalid_argument")
            /\ UNCHANGED rng
       ELSE /\ rcall' = Called("merge", << >>, "none")
            /\ rng' = merge(rng, other)
  /\ nops' = nops + 1
  /\ UNCHANGED << al, bin, runnerVars, indexVars >>

Intersect ==
  /\ nops < MaxOps
  /\ \E other \in Constructed :
       /\ rcall' = Called("intersect", << >>, "none")
       /\ rng' = intersect(rng, other)
  /\ nops' = nops + 1
  /\ UNCHANGED << al, bin, runnerVars, indexVars >>

ShiftRight ==
  /\ nops < MaxOps
  /\ \E amount \in Values :
       /\ rcall' = Called("shiftRight", << >>, "none")
       /\ rng' = shiftRight(rng, amount)
  /\ nops' = nops + 1
  /\ UNCHANGED << al, bin, runnerVars, indexVars >>

ShiftLeft ==
  /\ nops < MaxOps
  /\ \E amount \in Values :
       /\ rcall' = Called("shiftLeft", << >>, "none")
       /\ rng' = shiftLeft(rng, amount)
  /\ nops' = nops + 1
  /\ UNCHANGED << al, bin, runnerVars, indexVars >>

\* ------------------------------------------- range<T>: calls on two ranges
\* size(): static_cast<size_t>(end) - static_cast<size_t>(start).
size(r) == U64Sub(U64Of(r.end), U64Of(r.start))

\* contains without the test of other's size.
containsEmpty(r, other) ==
  /\ other.start >= r.start
  /\ other.end <= r.end

contains(r, other) ==
  /\ size(other) # U64Of(0)
  /\ other.start >= r.start
  /\ other.end <= r.end

overlaps(r, other) == size(intersect(r, other)) # U64Of(0)

isAdjacent(r, other) == r.start = other.end \/ r.end = other.start

\* Two objects first and second made from the arguments a and b, the call
\* made on them with its amount, the value it returned (out, holds) and the
\* exception it ended with or "none".
NoPair ==
  [pc |-> "idle", op |-> "none", a |-> Range(0, 0, 0), b |-> Range(0, 0, 0),
   first |-> Range(0, 0, 0), second |-> Range(0, 0, 0), amount |-> 0,
   out |-> Range(0, 0, 0), holds |-> FALSE, threw |-> "none"]

PairRest == UNCHANGED << rng, rcall, nops, al, runnerVars, indexVars >>

\* first.merge(second) without the test of isDisjoint.
CallMergeUnchecked ==
  /\ bin.pc = "call"
  /\ bin' = [bin EXCEPT !.pc = "returned", !.op = "merge",
                        !.first = merge(bin.first, bin.second)]
  /\ PairRest

\* first.merge(second)
CallMerge ==
  /\ bin.pc = "call"
  /\ IF isDisjoint(bin.first, bin.second)
     THEN bin' = [bin EXCEPT !.pc = "returned", !.op = "merge",
                             !.threw = "invalid_argument"]
     ELSE bin' = [bin EXCEPT !.pc = "returned", !.op = "merge",
                             !.first = merge(bin.first, bin.second)]
  /\ PairRest

\* range<T>::merge(first, second): a copy of first is merged with second.
CallStaticMerge ==
  /\ bin.pc = "call"
  /\ IF isDisjoint(bin.first, bin.second)
     THEN bin' = [bin EXCEPT !.pc = "returned", !.op = "static merge",
                             !.threw = "invalid_argument"]
     ELSE bin' = [bin EXCEPT !.pc = "returned", !.op = "static merge",
                             !.out = merge(bin.first, bin.second)]
  /\ PairRest

\* first.intersect(second)
CallIntersect ==
  /\ bin.pc = "call"
  /\ bin' = [bin EXCEPT !.pc = "returned", !.op = "intersect",
                        !.first = intersect(bin.first, bin.second)]
  /\ PairRest

\* range<T>::intersect(first, second)
CallStaticIntersect ==
  /\ bin.pc = "call"
  /\ bin' = [bin EXCEPT !.pc = "returned", !.op = "static intersect",
                        !.out = intersect(bin.first, bin.second)]
  /\ PairRest

CallContains ==
  /\ bin.pc = "call"
  /\ bin' = [bin EXCEPT !.pc = "returned", !.op = "contains",
                        !.holds = contains(bin.first, bin.second)]
  /\ PairRest

CallOverlaps ==
  /\ bin.pc = "call"
  /\ bin' = [bin EXCEPT !.pc = "returned", !.op = "overlaps",
                        !.holds = overlaps(bin.first, bin.second)]
  /\ PairRest

CallIsAdjacent ==
  /\ bin.pc = "call"
  /\ bin' = [bin EXCEPT !.pc = "returned", !.op = "isAdjacent",
                        !.holds = isAdjacent(bin.first, bin.second)]
  /\ PairRest

CallIsDisjoint ==
  /\ bin.pc = "call"
  /\ bin' = [bin EXCEPT !.pc = "returned", !.op = "isDisjoint",
                        !.holds = isDisjoint(bin.first, bin.second)]
  /\ PairRest

\* first.shiftRight(amount)
CallShiftRight ==
  /\ bin.pc = "call"
  /\ \E amount \in Values :
       bin' = [bin EXCEPT !.pc = "returned", !.op = "shiftRight",
                          !.amount = amount,
                          !.first = shiftRight(bin.first, amount)]
  /\ PairRest

\* first.shiftLeft(amount)
CallShiftLeft ==
  /\ bin.pc = "call"
  /\ \E amount \in Values :
       bin' = [bin EXCEPT !.pc = "returned", !.op = "shiftLeft",
                          !.amount = amount,
                          !.first = shiftLeft(bin.first, amount)]
  /\ PairRest

\* -------------------------------------------------------- align_to_page
NoResult16 == [threw |-> "none", value |-> 0]

\* align_to_page<TT>(start, page_size): start / page_size and the product
\* are computed in size_t and converted to TT, block_start > start and
\* block_start - lowest() in int, the last subtraction in size_t again.
align_to_page(start, page_size) ==
  IF page_size = 0 THEN [threw |-> "invalid_argument", value |-> 0]
  ELSE LET block_start ==
             U64ToValue(U64Mul(U64Div(U64Of(start), page_size), page_size))
       IN IF block_start > start
          THEN IF U64Less(U64Of(block_start - lowest), U64Of(page_size))
               THEN [threw |-> "range_error", value |-> 0]
               ELSE [threw |-> "none",
                     value |-> U64ToValue(U64Sub(U64Of(block_start), U64Of(page_size)))]
          ELSE [threw |-> "none", value |-> block_start]

\* (start % page_size) == 0, the remainder taken in size_t.
is_page_aligned(start, page_size) == U64Rem(U64Of(start), page_size) = 0

\* The start positions align_to_page is called with.
Starts ==
  ((0 - MaxStart) .. MaxStart) \cup (lowest .. (lowest + MaxStart))
  \cup ((highest - MaxStart) .. highest)

\* The page sizes: the small ones, 0 included, and two as large as the
\* whole of T.
PageSizes == (0 .. MaxPage) \cup {Pow2(ValueBits) - 1, Pow2(ValueBits)}

AlignToPage ==
  /\ al.pc = "call"
  /\ al' = [al EXCEPT !.pc = "returned",
                       !.result = align_to_page(al.start, al.page_size)]
  /\ UNCHANGED << rng, rcall, nops, bin, runnerVars, indexVars >>

\* The variables of partition while no range is used.
RangeIdle ==
  /\ rng = Range(0, 0, 0)
  /\ rcall = Called("range", << >>, "none")
  /\ nops = 0
  /\ al = [pc |-> "idle", start |-> 0, page_size |-> 1, result |-> NoResult16]
  /\ bin = NoPair

\* ---------------------------------------------------------- specification
RunnerInit ==
  /\ q = << >>
  /\ pushEnabled = TRUE
  /\ rpc = "init"
  /\ teamSize = 0
  /\ pending = 0
  /\ tpc = [t \in Threads |-> "out"]
  /\ ret = [t \in Threads |-> "barrier"]
  /\ v = [t \in Threads |-> NoResult]
  /\ proc = [t \in Threads |-> 0]
  /\ sum = 0
  /\ nextId = 1
  /\ accepted = {}
  /\ rejected = {}
  /\ popped = [i \in TaskIds |-> 0]
  /\ executed = [i \in TaskIds |-> 0]
  /\ proc0 = [t \in Threads |-> 0]
  /\ ran = [t \in Threads |-> 0]
  /\ threw = NoTask
  /\ disableCalled = FALSE
  /\ lastCall = "none"
  /\ sync = NoSync

Init == RunnerInit /\ IndexIdle /\ RangeIdle

ThreadStep(t) ==
  \/ While(t)
  \/ TaskStart(t)
  \/ TaskPop(t)
  \/ TaskTest(t)
  \/ TaskCall(t)

Next ==
  \/ AddTask
  \/ TryPush
  \/ DisableAdd
  \/ RunStart
  \/ \E t \in Threads : ThreadStep(t)
  \/ Join
  \/ SumUp

Spec == Init /\ [][Next]_vars

\* The threads of the team are scheduled by the operating system and each
\* goes on running; the barrier lets the region end once all have arrived.
FairSpec ==
  /\ Spec
  /\ \A t \in Threads : WF_vars(ThreadStep(t))
  /\ WF_vars(Join)
  /\ WF_vars(SumUp)

\* The runner, its producers, and callers of synchronize().
SyncNext ==
  \/ Next
  \/ Synchronize
  \/ \E t \in Threads : SynchronizeInTask(t)

SpecSync == Init /\ [][SyncNext]_vars

\* One call of computeKeys over one read: every parameter choice, every read
\* of at most MaxLen characters as generateStrings packs it, and as its
\* entry of lengths the number of its characters, one less or one more.
KeysInit ==
  /\ RunnerInit /\ RangeIdle
  /\ params \in Configs
  /\ reads \in [{0} -> CharSeqs(MaxLen)]
  /\ seqs = [i \in {0} |-> Pack(reads[i])]
  /\ lengths \in [{0} -> { l \in 0 .. (MaxLen + 1) :
                               l + 1 >= Len(reads[0]) /\ l <= Len(reads[0]) + 1 }]
  /\ offsets = [i \in {0} |-> U64Of(0)]
  /\ keys = [k \in 0 .. (SinkSize - 1) |-> 0]
  /\ ipc = "parallel"
  /\ enc = [i \in {0} |-> NoCall]
  /\ writers = {}

KeysNext ==
  /\ \E i \in DOMAIN enc : Seed(i) \/ Slide(i)
  /\ UNCHANGED << runnerVars, rangeVars >>

SpecKeys == KeysInit /\ [][KeysNext]_vars

\* The packed words of chars with anything in their padding bits.
Padded(chars) ==
  { [w \in DOMAIN Pack(chars) |-> Pack(chars)[w] + pad[w] * (PADDING_MASK + 1)] :
      pad \in [DOMAIN Pack(chars) -> 0 .. (Pow2(N_PADDING_BITS) - 1)] }

\* One call of computeKeys over one read called with its own length, whose
\* words hold its characters and anything in their padding bits.
PaddedInit ==
  /\ RunnerInit /\ RangeIdle
  /\ params \in Configs
  /\ reads \in [{0} -> CharSeqs(MaxLen)]
  /\ seqs \in [{0} -> Padded(reads[0])]
  /\ lengths = [i \in {0} |-> Len(reads[i])]
  /\ offsets = [i \in {0} |-> U64Of(0)]
  /\ keys = [k \in 0 .. (SinkSize - 1) |-> 0]
  /\ ipc = "parallel"
  /\ enc = [i \in {0} |-> NoCall]
  /\ writers = {}

SpecPadded == PaddedInit /\ [][KeysNext]_vars

\* A read of one word more than last_block counts: the characters of its
\* last word are the highest character, all before them are 0.
LongRead ==
  [p \in 1 .. ((Pow2(ByteBits) + 1) * N_PACKED_CHARS) |->
     IF p > Pow2(ByteBits) * N_PACKED_CHARS THEN CHAR_MASK ELSE 0]

\* One call of computeKeys over that read, called with its own length,
\* which a ReadLengthType holds.
LongInit ==
  /\ RunnerInit /\ RangeIdle
  /\ params \in Configs
  /\ reads = [i \in {0} |-> LongRead]
  /\ seqs = [i \in {0} |-> Pack(reads[i])]
  /\ lengths = [i \in {0} |-> ToReadLength(Len(reads[i]))]
  /\ offsets = [i \in {0} |-> U64Of(0)]
  /\ keys = [k \in 0 .. (Len(LongRead) - 1) |-> 0]
  /\ ipc = "parallel"
  /\ enc = [i \in {0} |-> NoCall]
  /\ writers = {}

SpecLong == LongInit /\ [][KeysNext]_vars

\* ------------------------------------------------------------------- main
\* for (i = 1; i <= N_R; ++i)
\*   offsets[i] = offsets[i-1] + static_cast<ReadBaseCountType>(lengths[i-1] - N_K + 1);
RECURSIVE PrefixSumTo(_)
PrefixSumTo(i) ==
  IF i = 0 THEN U64Of(0)
  ELSE U64Add(PrefixSumTo(i - 1), U64Of(lengths[i - 1] - N_K + 1))

PrefixSum ==
  /\ ipc = "prefix"
  /\ offsets' = [i \in 0 .. N_R |-> PrefixSumTo(i)]
  /\ ipc' = "alloc"
  /\ UNCHANGED << params, reads, seqs, lengths, keys, enc, writers >>

\* std::vector<KeyType> keys(total): total zeroed keys, or the exception of
\* a size no allocation can have, which nothing catches.
Alloc ==
  /\ ipc = "alloc"
  /\ LET total == U64ToIndex(offsets[N_R])
     IN IF total >= 0 /\ total < FarIndex
        THEN /\ keys' = [k \in 0 .. (total - 1) |-> 0]
             /\ ipc' = "parallel"
        ELSE /\ ipc' = "aborted"
             /\ UNCHANGED keys
  /\ UNCHANGED << params, reads, seqs, lengths, offsets, enc, writers >>

\* The end of the parallel for: every call has returned.
Finish ==
  /\ ipc = "parallel"
  /\ \A i \in DOMAIN enc : enc[i].pc = "done"
  /\ ipc' = "done"
  /\ UNCHANGED << params, reads, seqs, lengths, offsets, keys, enc, writers >>

\* The characters generateStrings draws at random are here a pattern that
\* differs from read to read and from position to position.
FillChar(i, p) == (i + p) % Pow2(N_BITS)

\* main over MaxReads reads of 0 .. MaxReadLen characters each, from the
\* prefix sum on; the iterations of the parallel for interleave freely, as
\* they do in a team of at least N_R threads.
UnitsInit ==
  /\ RunnerInit /\ RangeIdle
  /\ params \in Configs
  /\ lengths \in [0 .. (MaxReads - 1) -> 0 .. MaxReadLen]
  /\ reads = [i \in DOMAIN lengths |-> [p \in 1 .. lengths[i] |-> FillChar(i, p)]]
  /\ seqs = [i \in DOMAIN lengths |-> Pack(reads[i])]
  /\ offsets = [i \in 0 .. MaxReads |-> U64Of(0)]
  /\ keys = << >>
  /\ ipc = "prefix"
  /\ enc = [i \in DOMAIN lengths |-> NoCall]
  /\ writers = {}

UnitsNext ==
  /\ \/ PrefixSum
     \/ Alloc
     \/ \E i \in DOMAIN enc : Seed(i) \/ Slide(i)
     \/ Finish
  /\ UNCHANGED << runnerVars, rangeVars >>

SpecUnits == UnitsInit /\ [][UnitsNext]_vars

\* A range object, default-constructed, and at most MaxOps calls on it.
RangeInit == RunnerInit /\ IndexIdle /\ RangeIdle

RangeNext ==
  \/ Construct
  \/ Merge
  \/ Intersect
  \/ ShiftRight
  \/ ShiftLeft

SpecRange == RangeInit /\ [][RangeNext]_vars

\* One call of align_to_page for every start position and page size.
AlignInit ==
  /\ RunnerInit /\ IndexIdle
  /\ rng = Range(0, 0, 0)
  /\ rcall = Called("range", << >>, "none")
  /\ nops = 0
  /\ bin = NoPair
  /\ \E s \in Starts, p \in PageSizes :
       al = [pc |-> "call", start |-> s, page_size |-> p, result |-> NoResult16]

AlignNext == AlignToPage

SpecAlign == AlignInit /\ [][AlignNext]_vars

\* One call on every pair of ranges the constructor makes.
PairsInit ==
  /\ RunnerInit /\ IndexIdle
  /\ rng = Range(0, 0, 0)
  /\ rcall = Called("range", << >>, "none")
  /\ nops = 0
  /\ al = [pc |-> "idle", start |-> 0, page_size |-> 1, result |-> NoResult16]
  /\ \E a \in Constructed, b \in Constructed :
       bin = [NoPair EXCEPT !.pc = "call", !.a = a, !.b = b,
                            !.first = a, !.second = b]

PairsNext ==
  \/ CallMerge
  \/ CallStaticMerge
  \/ CallIntersect
  \/ CallStaticIntersect
  \/ CallContains
  \/ CallOverlaps
  \/ CallIsAdjacent
  \/ CallIsDisjoint
  \/ CallShiftRight
  \/ CallShiftLeft

SpecPairs == PairsInit /\ [][PairsNext]_vars

\* ------------------------------------------------------------------ claims
Returned == rpc = "done"
InQueue(i) == Cardinality({k \in 1 .. Len(q) : q[k] = i})

\* C1: no task body is ever entered twice, only accepted tasks are executed,
\* and when operator()() has returned every task that addTask accepted has
\* been executed exactly once, for every team size and every interleaving.
ExecutedExactlyOnce ==
  /\ \A i \in TaskIds : executed[i] <= 1
  /\ \A i \in TaskIds : executed[i] = 1 => i \in accepted
  /\ Returned => \A i \in accepted : executed[i] = 1

\* C1 witness: the run has returned after MaxTasks accepted tasks and every
\* thread of a full team ran one of them.
AllTasksRunByFullTeam ==
  /\ Returned
  /\ accepted = TaskIds
  /\ teamSize = NThreads
  /\ \A t \in Threads : ran[t] >= 1

\* C2: every accepted item is either still queued, once, or has been
\* returned by exactly one successful waitAndPop, and no other item is queued
\* or returned; a waitAndPop on a Draining queue returns its oldest item.
DeliveredOnce ==
  /\ [](\A i \in TaskIds :
          popped[i] + InQueue(i) = (IF i \in accepted THEN 1 ELSE 0))
  /\ [][\A t \in Threads :
          (Draining /\ tpc[t] = "pop" /\ tpc'[t] = "test")
             => (v'[t] = [first |-> TRUE, second |-> Head(q)] /\ q' = Tail(q))]_vars

\* C2 witness: a Draining queue of which one item was delivered and another
\* is still queued while a consumer is about to pop.
DrainingPartlyDelivered ==
  /\ Draining
  /\ \E i \in accepted : popped[i] = 1
  /\ \E t \in Threads : tpc[t] = "pop"

\* C3: after operator()() has completed, the sum over the per-worker
\* counters is the number of accepted tasks, every counter having started at
\* zero.
SumIsTaskCount ==
  Returned => (sum = Cardinality(accepted) /\ \A t \in Threads : proc0[t] = 0)

\* C4: once disableAdd has been called, a running operator()() whose task
\* bodies all return does return: the loop ends when canPop is false and
\* every generated task ends, those waiting in waitAndPop included.
RunReturns ==
  (rpc = "parallel" /\ isAddDisabled) ~> (Returned \/ threw # NoTask)

\* C4 witness: disableAdd was the producers' last call and the run has
\* returned, no body having raised, with every accepted task run.
ReturnedAfterDrain ==
  /\ Returned
  /\ threw = NoTask
  /\ accepted # {}
  /\ \A i \in accepted : executed[i] = 1
  /\ lastCall = "disableAdd"

\* C5: a waitAndPop that returned (false, _) did so on a Closed queue, after
\* every accepted item had been returned by a successful waitAndPop.
FalseOnlyWhenClosed ==
  \A t \in Threads :
    (tpc[t] = "test" /\ ~v[t].first)
       => (Closed /\ \A i \in accepted : popped[i] = 1)

\* C5 witness: a consumer holds (false, _) after all MaxTasks items were
\* accepted and delivered.
FalseAfterDrain ==
  /\ accepted = TaskIds
  /\ \E t \in Threads : tpc[t] = "test" /\ ~v[t].first

\* C6: a tryPush on an Open queue appends the item and returns true; on a
\* Draining or Closed queue it returns false and leaves the queue, and so
\* size(), as it was.
TryPushIffOpen ==
  [][TryPush =>
       IF Open
         THEN q' = Append(q, nextId) /\ nextId \in accepted'
         ELSE q' = q /\ getSize' = getSize /\ nextId \in rejected'
               /\ nextId \notin accepted']_vars

\* C6 witness: the last call was a tryPush that was refused while an
\* earlier item, accepted when the queue was Open, is still queued.
TryPushRefused ==
  /\ lastCall = "tryPush"
  /\ (nextId - 1) \in rejected
  /\ Draining

\* C7: once disablePush has been called, a thread inside waitAndPop leaves
\* it.
PopReturnsAfterDisable ==
  \A t \in Threads : (tpc[t] = "pop" /\ ~pushEnabled) ~> (tpc[t] # "pop")

\* C7 witness: disablePush is called on an empty queue while every thread of
\* a full team waits in waitAndPop.
AllBlockedAtDisable ==
  /\ Closed
  /\ lastCall = "disableAdd"
  /\ teamSize = NThreads
  /\ \A t \in Threads : tpc[t] = "pop"

\* C8: isAddDisabled is false before the first disableAdd and true ever
\* after it, nothing but disableAdd takes the queue out of Open, and a
\* further disableAdd changes neither the state nor the queued items.
DisableOnceAndForAll ==
  /\ [](isAddDisabled <=> disableCalled)
  /\ [][isAddDisabled => isAddDisabled']_vars
  /\ [][(Open /\ ~Open') => DisableAdd]_vars
  /\ [][(DisableAdd /\ isAddDisabled)
          => (q' = q /\ pushEnabled' = pushEnabled)]_vars

\* C8 witness: with an item queued, disableAdd was called, a push was then
\* refused, and disableAdd was called again.
DisabledTwice ==
  /\ lastCall = "disableAdd"
  /\ rejected # {}
  /\ q # << >>

\* C9: addTask after disableAdd is not blocked, returns false and leaves
\* getTaskCount as it was; a rejected task is never queued, never returned by
\* waitAndPop and never executed.
RejectedNeverRuns ==
  /\ [](\A i \in rejected :
          InQueue(i) = 0 /\ popped[i] = 0 /\ executed[i] = 0
            /\ \A t \in Threads : v[t].second # i)
  /\ []((Alive /\ isAddDisabled /\ nextId <= MaxTasks) => ENABLED AddTask)
  /\ [][(AddTask /\ isAddDisabled)
          => (nextId \in rejected' /\ nextId \notin accepted'
                /\ getTaskCount' = getTaskCount /\ q' = q)]_vars

\* C9 witness: the run has returned after an addTask was rejected and the
\* task accepted before it was executed.
RejectedAndReturned ==
  /\ Returned
  /\ rejected # {}
  /\ lastCall = "addTask"
  /\ \E i \in accepted : executed[i] = 1

\* C10: a worker's counter has been incremented once for every task body
\* it ran, a body that raised included, and a raising body does not end the
\* run before the tasks accepted with it were executed.
FailingTaskCounted ==
  /\ \A t \in Threads : tpc[t] # "call" => proc[t] = ran[t]
  /\ rpc = "aborted" => \A i \in accepted : executed[i] = 1

\* ------------------------------------------------------- claims: indexing
\* The characters of read i are as many as its entry of lengths says.
Consistent(i) == lengths[i] = Len(reads[i])

\* The key of the window of N_K characters at position p, from c on: the
\* character at p + c in the bit group c.
RECURSIVE WindowKey(_, _, _)
WindowKey(chars, p, c) ==
  IF c = N_K THEN 0
  ELSE chars[p + c + 1] * Pow2(c * N_BITS) + WindowKey(chars, p, c + 1)

KeyCount(len) == Max(len - N_K + 1, 0)

\* C12: for a read of L characters called with its own length the key count
\* passed to computeKeys is max(L - N_K + 1, 0), never more keys than that
\* are written, and when the call is done exactly that many are written:
\* none when L < N_K.
KeyCountAsSpecified ==
  \A i \in DOMAIN enc :
    (Consistent(i) /\ enc[i].pc # "idle") =>
      /\ enc[i].key_count = KeyCount(Len(reads[i]))
      /\ Len(enc[i].out) <= KeyCount(Len(reads[i]))
      /\ enc[i].pc = "done" => Len(enc[i].out) = KeyCount(Len(reads[i]))

\* C15: whatever the read and the key count, computeKeys reads no word at
\* an index that is not below the number of words of the read, neither for
\* the seed nor when it loads the block the slide starts from.
NoReadPastLastWord ==
  \A i \in DOMAIN enc : ~enc[i].oob

\* C16: a call that is done with fewer keys written than were requested has
\* logged the error.
TruncationReported ==
  \A i \in DOMAIN enc :
    (enc[i].pc = "done" /\ Len(enc[i].out) < enc[i].key_count) => enc[i].error

\* The sum of the key counts of the reads before read i.
RECURSIVE CountsBefore(_)
CountsBefore(i) ==
  IF i = 0 THEN 0 ELSE CountsBefore(i - 1) + KeyCount(lengths[i - 1])

\* C13: once main has computed them, offsets[0] = 0 and offsets[i] is the
\* sum of max(lengths[j] - N_K + 1, 0) over j < i, whatever the lengths,
\* lengths below N_K included.
OffsetsArePrefixSum ==
  ipc \in {"alloc", "parallel", "done", "aborted"} =>
    \A i \in 0 .. N_R : offsets[i] = U64Of(CountsBefore(i))

\* The index of keys the keys of read i start at.
FirstIndex(i) == U64ToIndex(offsets[i])

\* C14: when the offsets are the prefix sum of the key counts, read i writes
\* only indices in [offsets[i], offsets[i+1]), so no index is written by two
\* reads, and when all calls have returned the buffer holds, whatever the
\* interleaving was, the keys of every read's windows at the read's offset,
\* which is what encoding the reads one after the other gives.
UnitsWriteApart ==
  (/\ ipc \in {"parallel", "done"}
   /\ \A i \in 0 .. N_R : offsets[i] = U64Of(CountsBefore(i))) =>
    /\ \A w \in writers :
         FirstIndex(w[2]) <= w[1] /\ w[1] < FirstIndex(w[2] + 1)
    /\ \A w1, w2 \in writers : w1[1] = w2[1] => w1[2] = w2[2]
    /\ ipc = "done" =>
         \A i \in DOMAIN enc : \A k \in 0 .. (KeyCount(lengths[i]) - 1) :
           keys[FirstIndex(i) + k] = WindowKey(reads[i], k, 0)

\* ------------------------------------------------------ claims: partition
\* C17: a call of align_to_page with a page size above 0 that returns
\* without an exception returns the largest multiple of the page size not
\* above start: r <= start, r a multiple of page_size, start - r below
\* page_size, and is_page_aligned(r, page_size).
AlignedToPageStart ==
  (al.pc = "returned" /\ al.page_size > 0 /\ al.result.threw = "none") =>
    /\ al.result.value <= al.start
    /\ al.result.value % al.page_size = 0
    /\ al.start - al.result.value < al.page_size
    /\ is_page_aligned(al.result.value, al.page_size)

\* The largest multiple of page_size not above start.
FloorAligned(start, page_size) == start - (start % page_size)

\* C18: align_to_page throws invalid_argument whenever the page size is 0
\* and range_error whenever the largest multiple of the page size not above
\* start is below the lowest value of the type, and a value it returns is
\* never above start.
AlignErrorsRaised ==
  al.pc = "returned" =>
    /\ al.page_size = 0 => al.result.threw = "invalid_argument"
    /\ (al.page_size > 0 /\ FloorAligned(al.start, al.page_size) < lowest)
         => al.result.threw = "range_error"
    /\ al.result.threw = "none" => al.result.value <= al.start

\* C19: the constructor called with start, end and overlap throws
\* invalid_argument exactly when end < start or overlap < 0, and otherwise
\* the object has exactly these three values, the empty range start = end
\* included.
ConstructorChecks ==
  (rcall.op = "range" /\ Len(rcall.args) = 3) =>
    /\ rcall.threw = "invalid_argument"
         <=> (rcall.args[2] < rcall.args[1] \/ rcall.args[3] < 0)
    /\ rcall.threw # "invalid_argument" =>
         /\ rcall.threw = "none"
         /\ rng = Range(rcall.args[1], rcall.args[2], rcall.args[3])

\* C19 witness: the constructor has thrown for a negative overlap of an
\* empty range whose start and end alone are in order.
NegativeOverlapRejected ==
  /\ rcall.op = "range" /\ Len(rcall.args) = 3
  /\ rcall.args[1] = rcall.args[2]
  /\ rcall.args[3] < 0
  /\ rcall.threw = "invalid_argument"

\* C20: the range reached from constructed ranges by merge, intersect,
\* shiftLeft and shiftRight has start <= end and overlap >= 0.
RangeInvariant ==
  rng.start <= rng.end /\ rng.overlap >= 0
\* ----------------------------------------- claims: calls on two ranges
PairReturned(ops) == bin.pc = "returned" /\ bin.op \in ops

\* The range a call of merge or intersect made: the target of the member
\* form, the returned object of the static form.
Made == IF bin.op \in {"merge", "intersect"} THEN bin.first ELSE bin.out

\* C21: for valid ranges a and b that are not disjoint, merge makes the
\* range from the smaller start to the larger end with the overlap of an
\* input that has the larger end, and the static form leaves both of its
\* arguments as they were.
MergeSpansBoth ==
  (PairReturned({"merge", "static merge"}) /\ ~isDisjoint(bin.a, bin.b)) =>
    /\ bin.threw = "none"
    /\ Made.start = Min(bin.a.start, bin.b.start)
    /\ Made.end = Max(bin.a.end, bin.b.end)
    /\ \E x \in {bin.a, bin.b} :
         x.end = Max(bin.a.end, bin.b.end) /\ Made.overlap = x.overlap
    /\ bin.second = bin.b
    /\ bin.op = "static merge" => bin.first = bin.a

\* The static merge of [-1, 0) and [0, 1) with overlap 1 has returned.
MergedAdjacentPair ==
  /\ PairReturned({"static merge"})
  /\ bin.a = Range(0 - 1, 0, 0) /\ bin.b = Range(0, 1, 1)
  /\ bin.out = Range(0 - 1, 1, 1)
  /\ bin.first = bin.a

\* C22, as stated: merge raises for every pair of valid ranges that neither
\* overlap nor are adjacent, empty ranges included, and leaves the target
\* as it was.
MergeRaisesUnlessJoined ==
  (/\ PairReturned({"merge", "static merge"})
   /\ ~overlaps(bin.a, bin.b)
   /\ ~isAdjacent(bin.a, bin.b)) =>
    (bin.threw = "invalid_argument" /\ bin.first = bin.a)

\* C22, amended: merge raises exactly for the pairs with a.start > b.end or
\* a.end < b.start, and then leaves the target, the other range and the
\* output as they were.
MergeRaisesIffDisjoint ==
  PairReturned({"merge", "static merge"}) =>
    /\ bin.threw = "invalid_argument" <=>
         (bin.a.start > bin.b.end \/ bin.a.end < bin.b.start)
    /\ bin.threw = "none" \/ bin.threw = "invalid_argument"
    /\ bin.threw = "invalid_argument" =>
         (bin.first = bin.a /\ bin.second = bin.b /\ bin.out = NoPair.out)

\* The merge of [-1, 0) with the empty range [1, 1) has raised.
MergeOfApartRaised ==
  /\ PairReturned({"merge"})
  /\ bin.a = Range(0 - 1, 0, 1) /\ bin.b = Range(1, 1, 0)
  /\ bin.threw = "invalid_argument"
  /\ bin.first = bin.a

\* C23: intersect never raises; for valid ranges a and b it makes the range
\* from the larger start to the smaller end when that one is not empty and
\* otherwise the empty range at the smaller end, and what it makes of a
\* disjoint pair has size 0.
IntersectClamped ==
  PairReturned({"intersect", "static intersect"}) =>
    LET lo == Max(bin.a.start, bin.b.start)
        hi == Min(bin.a.end, bin.b.end)
    IN /\ bin.threw = "none"
       /\ Made.end = hi
       /\ Made.start = IF lo < hi THEN lo ELSE hi
       /\ isDisjoint(bin.a, bin.b) => size(Made) = U64Of(0)

\* The intersection of [-1, 0) and [1, highest) is the empty range at 0.
IntersectedApart ==
  /\ PairReturned({"static intersect"})
  /\ bin.a = Range(0 - 1, 0, 0) /\ bin.b = Range(1, highest, 0)
  /\ isDisjoint(bin.a, bin.b)
  /\ bin.out = Range(0, 0, 0)

\* C24: a.contains(b) is true exactly when b has positive size and lies
\* within a, a.start <= b.start and b.end <= a.end; it is false for every
\* empty b, so that an empty range does not contain itself.
ContainsIffWithin ==
  PairReturned({"contains"}) =>
    /\ bin.holds <=> /\ bin.b.end - bin.b.start > 0
                     /\ bin.a.start <= bin.b.start
                     /\ bin.b.end <= bin.a.end
    /\ bin.b.start = bin.b.end => ~bin.holds

\* The empty range [0, 0) has been found not to contain itself.
EmptyNotInItself ==
  /\ PairReturned({"contains"})
  /\ bin.a = Range(0, 0, 0) /\ bin.b = Range(0, 0, 0)
  /\ ~bin.holds

\* C25: shiftRight and shiftLeft leave size() and overlap unchanged: for
\* every valid range and every amount, size() after the shift is size()
\* before it and is end - start.
ShiftKeepsSize ==
  PairReturned({"shiftRight", "shiftLeft"}) =>
    /\ size(bin.a) = U64Of(bin.a.end - bin.a.start)
    /\ size(bin.first) = size(bin.a)
    /\ bin.first.overlap = bin.a.overlap

\* C30: overlaps, isAdjacent and isDisjoint give the same answer for (a, b)
\* and for (b, a), empty ranges included; overlaps holds exactly when the
\* intersection has positive size, and then isDisjoint does not hold.
PredicatesSymmetric ==
  /\ PairReturned({"overlaps"}) =>
       /\ bin.holds = overlaps(bin.b, bin.a)
       /\ bin.holds <=> LET i == intersect(bin.a, bin.b) IN i.end - i.start > 0
       /\ bin.holds => ~isDisjoint(bin.a, bin.b)
  /\ PairReturned({"isAdjacent"}) => bin.holds = isAdjacent(bin.b, bin.a)
  /\ PairReturned({"isDisjoint"}) => bin.holds = isDisjoint(bin.b, bin.a)

\* isDisjoint has returned true for the empty range [1, 1) and [-1, 0).
DisjointFromTheRight ==
  /\ PairReturned({"isDisjoint"})
  /\ bin.a = Range(1, 1, 0) /\ bin.b = Range(0 - 1, 0, 0)
  /\ bin.holds

\* ------------------------------------------------- claims: runner, again
\* The thread of the single block has left while (q.canPop()): the region
\* runs or has ended, and no thread is at the loop or in a task it is to
\* return to the loop from.
LoopLeft ==
  /\ rpc \in {"parallel", "sum", "done"}
  /\ \A t \in Threads : tpc[t] # "while" /\ ret[t] # "while"

\* C27: in every reachable state canPop() is true exactly when the queue is
\* non-empty or Open and false exactly when it is Closed, and once the run
\* loop has left while (q.canPop()) no accepted item is queued.
LoopLeftOnClosedOnly ==
  /\ canPop <=> (q # << >> \/ Open)
  /\ ~canPop <=> Closed
  /\ LoopLeft => (q = << >> /\ Closed)

\* The loop has been left while the region still runs, after a task was
\* accepted and popped.
LoopLeftAfterWork ==
  /\ rpc = "parallel"
  /\ LoopLeft
  /\ \E i \in accepted : popped[i] = 1

\* C26: synchronize() is a barrier over the NThreads workers: a caller is
\* past it only when every worker has arrived at it, be the call made
\* inside or outside the parallel region.
SynchronizeWaitsForAll == sync.passed => sync.arrived = Threads

\* ------------------------------------------------ claims: indexing, again
\* C28: the keys depend on the characters of the packed words only: a read
\* of at least N_K characters gives, whatever the padding bits of its words
\* hold, the keys of its windows of characters, the seed key included.
KeysIgnorePadding ==
  \A i \in DOMAIN enc :
    Len(reads[i]) >= N_K =>
      \A k \in 1 .. Len(enc[i].out) :
        enc[i].out[k] = WindowKey(reads[i], k - 1, 0)

\* C29: when the key of the window at j >= 1 has been written, the cursor
\* of the slide is at word (N_K + j) div N_PACKED_CHARS and slot (N_K + j)
\* mod N_PACKED_CHARS, for every length a ReadLengthType holds: last_block
\* does not wrap around, and the character put into the key for position j
\* is the character N_K + j - 1 of the read.
CursorFollowsWindow ==
  \A i \in DOMAIN enc :
    (Consistent(i) /\ Len(reads[i]) >= N_K /\ Len(enc[i].out) >= 2) =>
      LET j == Len(enc[i].out) - 1
      IN /\ enc[i].last_block = (N_K + j) \div N_PACKED_CHARS
         /\ enc[i].last_block_pos = (N_K + j) % N_PACKED_CHARS
         /\ enc[i].last_block_pos < N_PACKED_CHARS
         /\ shr(enc[i].out[j + 1], (N_K - 1) * N_BITS) = reads[i][N_K + j]

====
